---------------------------- MODULE Spec2Model ----------------------------
(***************************************************************************)
(* A model of the JNI boundary layer of OpenData LogDb                     *)
(* (src/log/native/src/lib.rs): the timestamp envelope codec, the          *)
(* LogDb / LogDbReader handles with their Tokio runtimes, and the          *)
(* nativeCreate / nativeAppend / nativeScan / nativeClose entry points.    *)
(*                                                                         *)
(* TLC integers are 32 bits wide, so a 64-bit integer is held as three     *)
(* limbs  [h, m, l]  with value  h * 2^48 + m * 2^24 + l :  m and l are    *)
(* 24-bit unsigned limbs, h is the top 16 bits (signed for an i64,         *)
(* unsigned for a u64).  Every i64 and u64 has exactly one such form.      *)
(***************************************************************************)
EXTENDS Integers, Sequences, FiniteSets, TLC

\* ------------------------------------------------------------------------
\* Bounds of the model
\* ------------------------------------------------------------------------

\* Longest payload drawn for the codec's inputs.
MaxPayloadLen == 2

\* Longest stored value drawn for the decoder's inputs (the header is 8).
MaxValueLen == 9

\* ------------------------------------------------------------------------
\* 64-bit integers as limbs
\* ------------------------------------------------------------------------

Limb == 2^24

Top == 2^16

TopSign == 2^15

Byte == 2^8

I64(h, m, l) == [h |-> h, m |-> m, l |-> l]

I64Zero == I64(0, 0, 0)

I64Max == I64(TopSign - 1, Limb - 1, Limb - 1)

I64Min == I64(0 - TopSign, 0, 0)

\* Signed order on limb triples.
I64Less(a, b) ==
    \/ a.h < b.h
    \/ a.h = b.h /\ a.m < b.m
    \/ a.h = b.h /\ a.m = b.m /\ a.l < b.l

\* The same bit pattern, least significant byte first (i64::to_le_bytes).
ToLeBytes(ts) ==
    LET u == ts.h % Top
    IN  << ts.l % Byte, (ts.l \div Byte) % Byte, ts.l \div (Byte * Byte),
           ts.m % Byte, (ts.m \div Byte) % Byte, ts.m \div (Byte * Byte),
           u % Byte, u \div Byte >>

\* i64::to_be_bytes: the two's-complement bit pattern, most significant
\* byte first.
ToBeBytes(ts) ==
    LET u == ts.h % Top
    IN  << u \div Byte, u % Byte,
           ts.m \div (Byte * Byte), (ts.m \div Byte) % Byte, ts.m % Byte,
           ts.l \div (Byte * Byte), (ts.l \div Byte) % Byte, ts.l % Byte >>

\* i64::from_be_bytes on exactly 8 bytes.
FromBeBytes(b) ==
    LET u == b[1] * Byte + b[2]
    IN  I64(IF u >= TopSign THEN u - Top ELSE u,
            (b[3] * Byte + b[4]) * Byte + b[5],
            (b[6] * Byte + b[7]) * Byte + b[8])

\* ------------------------------------------------------------------------
\* Envelope codec
\* ------------------------------------------------------------------------

TIMESTAMP_HEADER_SIZE == 8

\* copy_value_with_timestamp, its Ok path: a buffer of 8 + payload_len
\* bytes, the header written first, the payload copied behind it.
copy_value_with_timestamp(value, timestamp_ms) ==
    LET payload_len == Len(value)
        header == ToBeBytes(timestamp_ms)
    IN  [i \in 1..(TIMESTAMP_HEADER_SIZE + payload_len) |->
            IF i <= TIMESTAMP_HEADER_SIZE
            THEN header[i]
            ELSE value[i - TIMESTAMP_HEADER_SIZE]]

\* A decoder that strips a short value to nothing (a variant of the one below).
extract_dropping_short_value(value) ==
    IF Len(value) < TIMESTAMP_HEADER_SIZE
    THEN [timestamp_ms |-> I64Zero, payload |-> <<>>]
    ELSE [timestamp_ms |-> FromBeBytes(SubSeq(value, 1, TIMESTAMP_HEADER_SIZE)),
          payload |-> SubSeq(value, TIMESTAMP_HEADER_SIZE + 1, Len(value))]

\* A decoder that takes a value of exactly the header's length for a short
\* one (`<=` for `<`).
extract_wanting_payload(value) ==
    IF Len(value) <= TIMESTAMP_HEADER_SIZE
    THEN [timestamp_ms |-> I64Zero, payload |-> value]
    ELSE [timestamp_ms |-> FromBeBytes(SubSeq(value, 1, TIMESTAMP_HEADER_SIZE)),
          payload |-> SubSeq(value, TIMESTAMP_HEADER_SIZE + 1, Len(value))]

\* extract_timestamp_and_payload: (timestamp_ms, payload).  A value shorter
\* than the header has no header: timestamp 0 and the value itself.
extract_timestamp_and_payload(value) ==
    IF Len(value) < TIMESTAMP_HEADER_SIZE
    THEN [timestamp_ms |-> I64Zero, payload |-> value]
    ELSE [timestamp_ms |-> FromBeBytes(SubSeq(value, 1, TIMESTAMP_HEADER_SIZE)),
          payload |-> SubSeq(value, TIMESTAMP_HEADER_SIZE + 1, Len(value))]

\* ------------------------------------------------------------------------
\* u64 sequence numbers and the casts at the boundary
\* ------------------------------------------------------------------------

U64(h, m, l) == [h |-> h, m |-> m, l |-> l]

U64Zero == U64(0, 0, 0)

\* s + n for a small n >= 0, wrapping at 2^64.
U64Add(s, n) ==
    LET l == s.l + n
        m == s.m + (l \div Limb)
        h == s.h + (m \div Limb)
    IN  U64(h % Top, m % Limb, l % Limb)

\* Unsigned order: a <= b.
U64Le(a, b) ==
    \/ a.h < b.h
    \/ a.h = b.h /\ a.m < b.m
    \/ a.h = b.h /\ a.m = b.m /\ a.l <= b.l

\* A cast that saturates at i64::MAX instead of wrapping.
U64ClampI64(u) ==
    IF u.h >= TopSign THEN I64(TopSign - 1, Limb - 1, Limb - 1) ELSE I64(u.h, u.m, u.l)

\* `x as i64` of a u64: the same 64 bits read as two's complement.
U64AsI64(u) == I64(IF u.h >= TopSign THEN u.h - Top ELSE u.h, u.m, u.l)

\* `x as u64` of an i64 (a jlong).
I64AsU64(i) == U64(i.h % Top, i.m, i.l)

\* ------------------------------------------------------------------------
\* Inputs: keys, payloads, timestamps, records, configurations
\* ------------------------------------------------------------------------

\* b"k1", b"k2"
K1 == <<107, 49>>

K2 == <<107, 50>>

Keys == {K1, K2}

\* 1_700_000_000_000
TsNow == I64(0, 101327, 15034368)

\* -1_000_000
TsNegative == I64(0 - 1, Limb - 1, Limb - 1000000)

TsSamples == {I64Zero, TsNow, TsNegative, I64Max, I64Min, I64(0 - 1, Limb - 1, Limb - 1)}

ByteSamples == {0, 128, 255}

RECURSIVE SeqsUpTo(_, _)
\* Every sequence over S of length 0..n.
SeqsUpTo(S, n) ==
    IF n = 0 THEN {<<>>}
    ELSE LET shorter == SeqsUpTo(S, n - 1)
         IN  shorter \cup {Append(q, x) : q \in {r \in shorter : Len(r) = n - 1}, x \in S}

\* A Java Record: key(), value(), timestampMs().
JRecord(k, v, ts) == [key |-> k, value |-> v, timestampMs |-> ts]

\* {key = b"k1", payload = b"hi", timestamp_ms = 1_700_000_000_000}
RecHello == JRecord(K1, <<104, 105>>, TsNow)

\* {key = b"k2", payload = b"", timestamp_ms = -1_000_000}
RecOther == JRecord(K2, <<>>, TsNegative)

RecordSamples == {RecHello, RecOther}

\* Exception classes thrown through JNI.
NPE == "java/lang/NullPointerException"

IAE == "java/lang/IllegalArgumentException"

ODNE == "dev/opendata/common/OpenDataNativeException"

\* ------------------------------------------------------------------------
\* More bounds
\* ------------------------------------------------------------------------

\* Handles nativeCreate may hand out in one run.
MaxHandles == 2

\* Boundary calls issued in one run.
MaxOps == 3

\* Longest Record[] passed to nativeAppend.
MaxBatch == 2

\* Worker threads of a handle's main runtime.
FgWorkers == 1

Threads == {"t1", "t2"}

HandleIds == 1..MaxHandles

\* Store 0 is the one persistent store (a SlateDb path on a local or AWS
\* object store); store i > 0 is the private in-memory store of handle i.
StoreIds == 0..MaxHandles

Batches == SeqsUpTo(RecordSamples, MaxBatch)

MaxEntriesSamples == {0, 1, 10}

StartSamples == {I64Zero, I64(0, 0, 1)}

StorageSamples == {"InMemory", "SlateDb", "Unknown"}

ObjectStoreSamples == {"InMemory", "Local", "Aws", "Unknown"}

\* A Java LogDbConfig: the runtime class of storage() and, for SlateDb, of
\* its objectStore().
Configs ==
    {[storage |-> s, object_store |-> "InMemory"] : s \in {"InMemory", "Unknown"}}
    \cup {[storage |-> "SlateDb", object_store |-> o] : o \in ObjectStoreSamples}

\* Where nativeCreate can fail beside the configuration itself.
CreateFaults == {"none", "jni", "runtime", "compaction", "open"}

\* ------------------------------------------------------------------------
\* The engine (log::LogDb, log::LogDbReader): an append-only log of
\* (sequence, key, value) entries
\* ------------------------------------------------------------------------

Entry(seq, k, v) == [sequence |-> seq, key |-> k, value |-> v]

EmptyStore == [log |-> <<>>, next |-> U64Zero]

\* A persistent store holding values written without the header.
LegacyStore ==
    [log |-> << Entry(U64(0, 0, 0), K1, <<1, 2, 3>>),
                Entry(U64(0, 0, 1), K1, <<>>),
                Entry(U64(0, 0, 2), K2, <<0, 0, 1, 139, 207, 229, 104>>) >>,
     next |-> U64(0, 0, 3)]

DiskImages == {EmptyStore, LegacyStore}

\* LogDb::append: the batch gets consecutive sequence numbers from the
\* store's next one, which is the start sequence returned.
EngineAppend(store, records) ==
    [store |-> [log |-> store.log \o
                        [i \in 1..Len(records) |->
                            Entry(U64Add(store.next, i - 1),
                                  records[i].key, records[i].value)],
                next |-> U64Add(store.next, Len(records))],
     start_sequence |-> store.next]

\* LogRead::scan(key, start_seq..): the entries of the key from start_seq
\* on, in sequence order.
EngineScan(store, key, start_seq) ==
    SelectSeq(store.log,
              LAMBDA e : e.key = key /\ U64Le(start_seq, e.sequence))

\* ------------------------------------------------------------------------
\* State
\* ------------------------------------------------------------------------

VARIABLES
    th,        \* per calling thread: the boundary call it is inside
    last,      \* the call that returned last: its arguments and its result
    handles,   \* the LogHandle / LogDbReaderHandle behind each handle value
    stores,    \* the engine's logs
    proc,      \* "ok", "ub" (undefined behaviour has happened) or "crashed"
    opsLeft,   \* boundary calls still to be issued
    appends,   \* per store: the appends that returned an AppendResult, in order
    orphaned,  \* per store: records the engine took in an append that then threw
    disk0,     \* the persistent store as it was before the run
    codec,     \* the codec's inputs and outputs, when it is run on its own
    pools      \* the Tokio runtimes that are allocated

vars == <<th, last, handles, stores, proc, opsLeft, appends, orphaned, disk0, codec, pools>>

Ok(v) == [ok |-> TRUE, val |-> v, pulls |-> 0]

Err == [ok |-> FALSE, val |-> <<>>, pulls |-> 0]

NoRet == [status |-> "none", exc |-> "", val |-> <<>>]

\* A normal return; val is the sequence of what is returned: the handle, the
\* AppendResult, the LogEntry[] elements, nothing.
Returned(v) == [status |-> "ok", exc |-> "", val |-> v]

Thrown(e) == [status |-> "exception", exc |-> e, val |-> <<>>]

NoConfig == [storage |-> "none", object_store |-> "none"]

IdleThread ==
    [pc |-> "idle", op |-> "none", h |-> 0,
     records |-> <<>>, rust_records |-> <<>>, first_timestamp_ms |-> I64Zero,
     key |-> <<>>, start_seq |-> U64Zero, max |-> 0,
     eng |-> Ok(<<>>), ret |-> NoRet,
     \* history, read by the properties only
     engine_calls |-> 0,   \* engine operations the call has started
     stale |-> FALSE,      \* the handle had been closed when the call was issued
     overlap |-> FALSE,    \* another append was inside the call at the same time
     acked |-> 0,          \* appends on the store that had returned at issue
     fault |-> FALSE,      \* a JNI call or the engine failed under the call
     pool |-> 0,           \* the runtime whose block_on the call entered
     fail_at |-> 0,        \* the record at which marshalling failed
     cursor_len |-> 0,     \* entries the engine's cursor had to yield
     config |-> NoConfig,  \* create: the configuration, when it is kept
     create_fault |-> "none"]  \* create: where it was made to fail

Call(op, h) == [IdleThread EXCEPT !.op = op, !.h = h]

NoHandle ==
    [st |-> "none", kind |-> "none", store |-> 0, log |-> "none",
     runtime |-> "none", compaction_runtime |-> "none", maint |-> 0]

CodecIdle ==
    [pc |-> "off", mode |-> "off", ts |-> I64Zero, payload |-> <<>>,
     value |-> <<>>, out |-> [timestamp_ms |-> I64Zero, payload |-> <<>>],
     entries |-> Ok(<<>>), seq |-> U64Zero, result |-> Ok(<<>>)]

Init ==
    /\ th = [t \in Threads |-> IdleThread]
    /\ last = IdleThread
    /\ handles = [i \in HandleIds |-> NoHandle]
    /\ disk0 \in DiskImages
    /\ stores = [s \in StoreIds |-> IF s = 0 THEN disk0 ELSE EmptyStore]
    /\ appends = [s \in StoreIds |-> <<>>]
    /\ orphaned = [s \in StoreIds |-> 0]
    /\ proc = "ok"
    /\ opsLeft = MaxOps
    /\ codec = CodecIdle
    /\ pools = {}

Known(h) == h \in HandleIds /\ handles[h].st # "none"

Live(h) == h \in HandleIds /\ handles[h].st = "live"

\* A handle check that looks the handle up among the live ones.
HandleNotLive(h) == h = 0 \/ ~Live(h)

\* The only check the entry points make of a handle: `handle == 0`.
HandleIsNull(h) == h = 0

\* Calls that hold a worker of handle h's main runtime while they wait.
FgBusy(h) == Cardinality({t \in Threads : th[t].h = h /\ th[t].pc = "wait"})

\* Maintenance run on the main runtime, beside the blocked calls.
MaintOnMainRuntime(h) == "runtime"

\* The runtime the engine runs its compaction / GC tasks on: the one given
\* to StorageRuntime::with_compaction_runtime.
MaintPool(h) == "compaction_runtime"

CanIssue(t) == proc # "crashed" /\ th[t].pc = "idle" /\ opsLeft > 0

Running(t, pcs) == proc # "crashed" /\ th[t].pc \in pcs

\* log_handle.runtime_handle: the runtime of handle h that block_on enters
\* (0 when the handle owns none).
RuntimeOf(h) ==
    LET own == {p \in pools : p.owner = h /\ p.role = "runtime"}
    IN  IF own = {} THEN 0 ELSE (CHOOSE p \in own : TRUE).id

\* The runtimes still allocated when the handles are hs: those not shut down.
PoolsLeft(hs) ==
    {p \in pools : p.owner \notin HandleIds \/ hs[p.owner][p.role] # "shutdown"}

\* The call of thread t returns: the thread is idle again and the call,
\* with its result, is the last one returned.
Return(t, call, ret) ==
    /\ th' = [th EXCEPT ![t] = IdleThread]
    /\ last' = [call EXCEPT !.pc = "idle", !.rust_records = <<>>, !.ret = ret]

\* The call of thread t goes on, in `call`.
Continue(t, call) ==
    /\ th' = [th EXCEPT ![t] = call]
    /\ last' = last

\* ------------------------------------------------------------------------
\* nativeCreate
\* ------------------------------------------------------------------------

\* extract_object_store_config: Ok(variant) or Err.
extract_object_store_config(obj, jniOk) ==
    IF ~jniOk THEN Err
    ELSE IF obj = "InMemory" THEN Ok("InMemory")
    ELSE IF obj = "Aws" THEN Ok("Aws")
    ELSE IF obj = "Local" THEN Ok("Local")
    ELSE Err

\* extract_slatedb_config: Ok(SlateDb over the object store) or Err.
extract_slatedb_config(config, jniOk) ==
    LET object_store == extract_object_store_config(config.object_store, jniOk)
    IN  IF ~jniOk \/ ~object_store.ok THEN Err
        ELSE Ok([storage |-> "SlateDb", object_store |-> object_store.val])

\* An extraction that takes a storage object of no known class for InMemory.
extract_storage_config_or_default(config, jniOk) ==
    IF ~jniOk THEN Err
    ELSE IF config.storage = "SlateDb" THEN extract_slatedb_config(config, jniOk)
    ELSE Ok([storage |-> "InMemory", object_store |-> "InMemory"])

\* extract_storage_config: Ok(StorageConfig) or Err.
extract_storage_config(config, jniOk) ==
    IF ~jniOk THEN Err
    ELSE IF config.storage = "InMemory"
    THEN Ok([storage |-> "InMemory", object_store |-> "InMemory"])
    ELSE IF config.storage = "SlateDb" THEN extract_slatedb_config(config, jniOk)
    ELSE Err

\* The store an engine opened with this StorageConfig on handle id works on.
StoreOf(storage_config, id) ==
    IF storage_config.storage = "SlateDb"
       /\ storage_config.object_store \in {"Local", "Aws"}
    THEN 0 ELSE id

FreshId == CHOOSE i \in HandleIds :
              handles[i].st = "none" /\ \A j \in HandleIds : j < i => handles[j].st # "none"

\* An allocated runtime: its identity, the LogHandle field it is kept in
\* and the handle that owns it (0: none).
Pool(id, role, owner) == [id |-> id, role |-> role, owner |-> owner]

\* One runtime for the whole process, handed to every create.
SharedPoolId(used) == 1

\* tokio::runtime::Builder::new_multi_thread().build(): a runtime of its
\* own, none of those allocated.
NewPoolId(used) ==
    CHOOSE i \in 1..(2 * MaxHandles) :
        i \notin used /\ \A j \in 1..(i - 1) : j \in used

\* An early return that keeps the runtimes built so far alive, owned by
\* nothing.
LeakLocals(locals) == {[p EXCEPT !.owner = 0] : p \in locals}

\* An early `return 0` (or the Err arm): the locals `runtime` and
\* `compaction_runtime` go out of scope and are dropped.
DropLocals(locals) == {}

\* The outcome of a create call: the exception thrown with the 0 returned,
\* or the handle boxed and its address returned; and the runtimes the call
\* leaves allocated.
CreateOutcome(kind, config, fault, id) ==
    LET storage_config == extract_storage_config(config, fault # "jni")
        used == {p.id : p \in pools}
        runtime == Pool(NewPoolId(used), "runtime", id)
        compaction_runtime ==
            Pool(NewPoolId(used \cup {runtime.id}), "compaction_runtime", id)
        built == IF kind = "rw" THEN {runtime, compaction_runtime} ELSE {runtime}
        Failed(e, locals) ==
            [ret |-> Thrown(e), handle |-> NoHandle, pools |-> DropLocals(locals)]
    IN  IF ~storage_config.ok THEN Failed(IAE, {})
        ELSE IF fault = "runtime" THEN Failed(ODNE, {})
        ELSE IF kind = "rw" /\ fault = "compaction" THEN Failed(ODNE, {runtime})
        ELSE IF fault = "open" THEN Failed(ODNE, built)
        ELSE [ret |-> Returned(<<id>>),
              handle |-> [st |-> "live", kind |-> kind,
                          store |-> StoreOf(storage_config.val, id),
                          log |-> "open", runtime |-> "running",
                          compaction_runtime |->
                              IF kind = "rw" THEN "running" ELSE "none",
                          maint |-> 0],
              pools |-> built]

\* The create call as the history keeps it: with its arguments when `keep`.
CreateCall(config, fault, keep) ==
    IF keep
    THEN [Call("create", 0) EXCEPT !.config = config, !.create_fault = fault]
    ELSE Call("create", 0)

\* Java_dev_opendata_LogDb_nativeCreate
LogDbCreate(t, config, fault, keep) ==
    /\ CanIssue(t)
    /\ \E i \in HandleIds : handles[i].st = "none"
    /\ LET out == CreateOutcome("rw", config, fault, FreshId)
       IN  /\ Return(t, CreateCall(config, fault, keep), out.ret)
           /\ handles' = IF out.ret.status = "ok"
                         THEN [handles EXCEPT ![FreshId] = out.handle]
                         ELSE handles
           /\ pools' = pools \cup out.pools
    /\ opsLeft' = opsLeft - 1
    /\ UNCHANGED <<stores, proc, appends, orphaned, disk0, codec>>

\* Java_dev_opendata_LogDbReader_nativeCreate
ReaderCreate(t, config, fault, keep) ==
    /\ CanIssue(t)
    /\ fault # "compaction"
    /\ \E i \in HandleIds : handles[i].st = "none"
    /\ LET out == CreateOutcome("ro", config, fault, FreshId)
       IN  /\ Return(t, CreateCall(config, fault, keep), out.ret)
           /\ handles' = IF out.ret.status = "ok"
                         THEN [handles EXCEPT ![FreshId] = out.handle]
                         ELSE handles
           /\ pools' = pools \cup out.pools
    /\ opsLeft' = opsLeft - 1
    /\ UNCHANGED <<stores, proc, appends, orphaned, disk0, codec>>

\* ------------------------------------------------------------------------
\* nativeAppend
\* ------------------------------------------------------------------------

RECURSIVE MarshalLoop(_, _, _, _, _)
\* The loop `for i in 0..len` of nativeAppend from record i on (1-based);
\* failAt is the record at which a JNI call fails (0: none does).
MarshalLoop(records, i, rust_records, first_timestamp_ms, failAt) ==
    IF i > Len(records)
    THEN [ok |-> TRUE, rust_records |-> rust_records,
          first_timestamp_ms |-> first_timestamp_ms]
    ELSE IF i = failAt
    THEN [ok |-> FALSE, rust_records |-> <<>>,
          first_timestamp_ms |-> first_timestamp_ms]
    ELSE LET timestamp_ms == records[i].timestampMs
             value_bytes == copy_value_with_timestamp(records[i].value, timestamp_ms)
         IN  MarshalLoop(records, i + 1,
                         Append(rust_records,
                                [key |-> records[i].key, value |-> value_bytes]),
                         IF i = 1 THEN timestamp_ms ELSE first_timestamp_ms,
                         failAt)

\* A marshaller that keeps the timestamp of the last record of the batch.
MarshalKeepingLast(records, failAt) ==
    LET m == MarshalLoop(records, 1, <<>>, I64Zero, failAt)
    IN  IF Len(records) = 0 THEN m
        ELSE [m EXCEPT !.first_timestamp_ms = records[Len(records)].timestampMs]

\* A marshaller that submits only the first record of the batch.
MarshalFirstOnly(records, failAt) ==
    LET m == MarshalLoop(records, 1, <<>>, I64Zero, failAt)
    IN  [m EXCEPT !.rust_records = SubSeq(m.rust_records, 1, 1)]

\* A marshaller that stops at the record whose JNI call fails and submits
\* the records before it.
MarshalPartial(records, failAt) ==
    MarshalLoop(SubSeq(records, 1, IF failAt = 0 THEN Len(records) ELSE failAt - 1),
                1, <<>>, I64Zero, 0)

\* A marshaller that heads every value with the first record's timestamp.
MarshalCallWide(records, failAt) ==
    MarshalLoop([i \in 1..Len(records) |->
                    [records[i] EXCEPT !.timestampMs = records[1].timestampMs]],
                1, <<>>, I64Zero, failAt)

\* The marshalling loop of nativeAppend, from its start.
MarshalRecords(records, failAt) == MarshalLoop(records, 1, <<>>, I64Zero, failAt)

\* create_append_result: the Java AppendResult(long sequence, long timestamp).
create_append_result(start_sequence, timestamp_ms, jniOk) ==
    IF ~jniOk THEN Err
    ELSE Ok([start_sequence |-> U64AsI64(start_sequence),
             timestamp_ms |-> timestamp_ms])

\* An append without the check of the empty array.
EmptyBatchNeverRejected(len) == FALSE

\* `if len == 0`: the empty Record[] is rejected before the loop.
EmptyBatchRejected(len) == len = 0

\* Appends on store s that have returned their AppendResult.
Acked(h) == IF Known(h) THEN Len(appends[handles[h].store]) ELSE 0

\* nativeAppend up to its block_on: the handle check, the array length, the
\* marshalling loop.
AppendInvoke(t, h, records, failAt) ==
    /\ CanIssue(t)
    /\ h = 0 \/ (Known(h) /\ handles[h].kind = "rw")
    /\ failAt \in 0..Len(records)
    /\ opsLeft' = opsLeft - 1
    /\ LET call == [Call("append", h) EXCEPT
                        !.records = records, !.stale = (h # 0 /\ ~Live(h)),
                        !.acked = Acked(h)]
           m == MarshalRecords(records, failAt)
       IN  IF HandleIsNull(h) THEN Return(t, call, Thrown(NPE))
           ELSE IF EmptyBatchRejected(Len(records)) THEN Return(t, call, Thrown(IAE))
           ELSE IF ~m.ok
           THEN Return(t, [call EXCEPT !.fault = TRUE, !.fail_at = failAt],
                       Thrown(ODNE))
           ELSE Continue(t, [call EXCEPT !.pc = "block", !.pool = RuntimeOf(h),
                                         !.fail_at = failAt,
                                         !.rust_records = m.rust_records,
                                         !.first_timestamp_ms = m.first_timestamp_ms])
    /\ UNCHANGED <<handles, stores, proc, appends, orphaned, disk0, codec, pools>>

\* Appends of other threads on the same handle that are inside the call.
OthersAppending(t) ==
    \E u \in Threads \ {t} :
        /\ th[u].op = "append" /\ th[u].h = th[t].h
        /\ th[u].pc \in {"block", "wait", "ret"}

\* The future of nativeAppend's block_on runs: log.append(rust_records).
AppendEngine(t, engineOk) ==
    /\ Running(t, {"block", "wait"})
    /\ th[t].op = "append"
    /\ Live(th[t].h)
    /\ th[t].pc = "block" => FgBusy(th[t].h) < FgWorkers
    /\ th[t].pc = "wait" => handles[th[t].h].maint = 0
    /\ LET s == handles[th[t].h].store
           r == EngineAppend(stores[s], th[t].rust_records)
       IN  /\ stores' = IF engineOk THEN [stores EXCEPT ![s] = r.store] ELSE stores
           /\ Continue(t, [th[t] EXCEPT
                              !.pc = "ret",
                              !.eng = IF engineOk THEN Ok(r.start_sequence) ELSE Err,
                              !.engine_calls = @ + 1,
                              !.fault = ~engineOk,
                              !.overlap = OthersAppending(t)])
    /\ UNCHANGED <<handles, proc, opsLeft, appends, orphaned, disk0, codec, pools>>

\* nativeAppend after block_on: `match result`.
AppendReturn(t, jniOk) ==
    /\ Running(t, {"ret"})
    /\ th[t].op = "append"
    /\ th[t].eng.ok \/ jniOk
    /\ LET s == handles[th[t].h].store
           r == create_append_result(th[t].eng.val, th[t].first_timestamp_ms, jniOk)
           ok == th[t].eng.ok /\ r.ok
       IN  /\ Return(t, [th[t] EXCEPT !.fault = ~ok],
                     IF ok THEN Returned(<<r.val>>) ELSE Thrown(ODNE))
           /\ appends' = IF ok
                         THEN [appends EXCEPT ![s] =
                                 Append(@, [records |-> th[t].records,
                                            result |-> r.val,
                                            overlap |-> th[t].overlap])]
                         ELSE appends
           /\ orphaned' = IF th[t].eng.ok /\ ~r.ok
                          THEN [orphaned EXCEPT ![s] = @ + Len(th[t].rust_records)]
                          ELSE orphaned
    /\ UNCHANGED <<handles, stores, proc, opsLeft, disk0, codec, pools>>

\* ------------------------------------------------------------------------
\* nativeScan (LogDb and LogDbReader: the same code on either handle)
\* ------------------------------------------------------------------------

RECURSIVE ScanLoop(_, _, _, _, _, _)
\* `while entries.len() < max { match iter.next().await? ... }` over the
\* cursor iter, whose next entry is iter[pos]; pulls counts the calls of
\* next(), the first of which fails when fault = "next".
ScanLoop(iter, pos, entries, max, fault, pulls) ==
    IF Len(entries) < max
    THEN IF fault = "next" /\ pulls = 0 THEN Err
         ELSE IF pos <= Len(iter)
         THEN ScanLoop(iter, pos + 1, Append(entries, iter[pos]), max, fault, pulls + 1)
         ELSE [ok |-> TRUE, val |-> entries, pulls |-> pulls + 1]
    ELSE [ok |-> TRUE, val |-> entries, pulls |-> pulls]

\* A loop that pulls before it looks at max (do-while): at least one entry.
ScanBlockPullFirst(store, key_bytes, start_seq, max, fault) ==
    IF fault = "scan" THEN Err
    ELSE ScanLoop(EngineScan(store, key_bytes, start_seq), 1, <<>>,
                  IF max = 0 THEN 1 ELSE max, fault, 0)

\* A loop that stops one entry late (`<=` for `<`).
ScanBlockOneMore(store, key_bytes, start_seq, max, fault) ==
    IF fault = "scan" THEN Err
    ELSE ScanLoop(EngineScan(store, key_bytes, start_seq), 1, <<>>, max + 1, fault, 0)

\* The async block of nativeScan: open the cursor, then the loop.
ScanBlock(store, key_bytes, start_seq, max, fault) ==
    IF fault = "scan" THEN Err
    ELSE ScanLoop(EngineScan(store, key_bytes, start_seq), 1, <<>>, max, fault, 0)

EngineFaults == {"none", "scan", "next"}

\* A Java LogEntry(long sequence, long timestamp, byte[] key, byte[] value).
JLogEntry(seq, ts, k, v) ==
    [sequence |-> seq, timestamp_ms |-> ts, key |-> k, payload |-> v]

\* A conversion that hands the stored value, header included, to Java.
create_log_entry_array_raw(entries, jniOk) ==
    IF ~jniOk THEN Err
    ELSE Ok([i \in 1..Len(entries) |->
                JLogEntry(U64AsI64(entries[i].sequence),
                          extract_timestamp_and_payload(entries[i].value).timestamp_ms,
                          entries[i].key, entries[i].value)])

\* create_log_entry_array
create_log_entry_array(entries, jniOk) ==
    IF ~jniOk THEN Err
    ELSE Ok([i \in 1..Len(entries) |->
                LET tp == extract_timestamp_and_payload(entries[i].value)
                IN  JLogEntry(U64AsI64(entries[i].sequence), tp.timestamp_ms,
                              entries[i].key, tp.payload)])

\* nativeScan up to its block_on: the handle check and the key.
ScanInvoke(t, h, key, start_sequence, max_entries, jniOk) ==
    /\ CanIssue(t)
    /\ h = 0 \/ Known(h)
    /\ opsLeft' = opsLeft - 1
    /\ LET call == [Call("scan", h) EXCEPT
                        !.key = key, !.max = max_entries,
                        !.start_seq = I64AsU64(start_sequence),
                        !.stale = (h # 0 /\ ~Live(h)),
                        !.acked = Acked(h)]
       IN  IF HandleIsNull(h) THEN Return(t, call, Thrown(NPE))
           ELSE IF ~jniOk THEN Return(t, [call EXCEPT !.fault = TRUE], Thrown(ODNE))
           ELSE Continue(t, [call EXCEPT !.pc = "block", !.pool = RuntimeOf(h)])
    /\ UNCHANGED <<handles, stores, proc, appends, orphaned, disk0, codec, pools>>

\* The future of nativeScan's block_on runs.
ScanEngine(t, fault) ==
    /\ Running(t, {"block", "wait"})
    /\ th[t].op = "scan"
    /\ Live(th[t].h)
    /\ th[t].pc = "block" => FgBusy(th[t].h) < FgWorkers
    /\ th[t].pc = "wait" => handles[th[t].h].maint = 0
    /\ LET s == handles[th[t].h].store
           r == ScanBlock(stores[s], th[t].key, th[t].start_seq, th[t].max, fault)
       IN  Continue(t, [th[t] EXCEPT
                           !.pc = "ret", !.eng = r,
                           !.engine_calls = @ + 1, !.fault = ~r.ok,
                           !.cursor_len =
                               IF fault = "scan" THEN 0
                               ELSE Len(EngineScan(stores[s], th[t].key,
                                                   th[t].start_seq))])
    /\ UNCHANGED <<handles, stores, proc, opsLeft, appends, orphaned, disk0, codec, pools>>

\* nativeScan after block_on: `match entries_result`.
ScanReturn(t, jniOk) ==
    /\ Running(t, {"ret"})
    /\ th[t].op = "scan"
    /\ th[t].eng.ok \/ jniOk
    /\ LET r == create_log_entry_array(th[t].eng.val, jniOk)
           ok == th[t].eng.ok /\ r.ok
       IN  Return(t, [th[t] EXCEPT !.fault = ~ok],
                  IF ok THEN Returned(r.val) ELSE Thrown(ODNE))
    /\ UNCHANGED <<handles, stores, proc, opsLeft, appends, orphaned, disk0, codec, pools>>

\* ------------------------------------------------------------------------
\* The two runtimes
\* ------------------------------------------------------------------------

\* The engine makes a call inside block_on wait for one of its maintenance
\* tasks (a flush, a compaction), which it queues on its maintenance pool.
\* The waiting call keeps a worker of the main runtime.
EngineStall(t) ==
    /\ Running(t, {"block"})
    /\ th[t].op \in {"append", "scan"}
    /\ Live(th[t].h)
    /\ handles[th[t].h].kind = "rw"
    /\ FgBusy(th[t].h) < FgWorkers
    /\ Continue(t, [th[t] EXCEPT !.pc = "wait"])
    /\ handles' = [handles EXCEPT ![th[t].h].maint = @ + 1]
    /\ UNCHANGED <<stores, proc, opsLeft, appends, orphaned, disk0, codec, pools>>

\* The pool the maintenance tasks of handle h are queued on has a worker
\* for them.  On the main runtime that is a worker no blocked call holds.
MaintCanRun(h) ==
    IF MaintPool(h) = "compaction_runtime"
    THEN handles[h].compaction_runtime = "running"
    ELSE handles[h].runtime = "running" /\ FgBusy(h) < FgWorkers

\* A worker of the maintenance pool runs one queued maintenance task.
Maintenance(h) ==
    /\ proc # "crashed"
    /\ handles[h].maint > 0
    /\ MaintCanRun(h)
    /\ handles' = [handles EXCEPT ![h].maint = @ - 1]
    /\ UNCHANGED <<th, last, stores, proc, opsLeft, appends, orphaned, disk0, codec, pools>>

\* ------------------------------------------------------------------------
\* nativeClose
\* ------------------------------------------------------------------------

\* A close that shuts the runtimes down as soon as it has the LogHandle.
TakeAndShutDown(hd) ==
    [hd EXCEPT !.st = "freed", !.runtime = "shutdown",
               !.compaction_runtime = "shutdown"]

\* Box::from_raw and the destructuring: the LogHandle is taken back, its
\* log and runtimes are now locals of nativeClose.
TakeLogHandle(hd) == [hd EXCEPT !.st = "freed"]

\* LogDb.nativeClose up to its block_on.  handle == 0 is a no-op.
CloseInvoke(t, h) ==
    /\ CanIssue(t)
    /\ h = 0 \/ (Known(h) /\ handles[h].kind = "rw")
    /\ opsLeft' = opsLeft - 1
    /\ LET call == [Call("close", h) EXCEPT !.stale = (h # 0 /\ ~Live(h))]
       IN  IF HandleIsNull(h)
           THEN Return(t, call, Returned(<<>>)) /\ handles' = handles
           ELSE IF Live(h)
           THEN /\ Continue(t, [call EXCEPT !.pc = "closing"])
                /\ handles' = [handles EXCEPT ![h] = TakeLogHandle(@)]
           ELSE Continue(t, [call EXCEPT !.pc = "block"]) /\ handles' = handles
    /\ UNCHANGED <<stores, proc, appends, orphaned, disk0, codec, pools>>

\* The future of nativeClose's block_on runs: log.close().
CloseEngine(t, engineOk) ==
    /\ Running(t, {"closing"})
    /\ Continue(t, [th[t] EXCEPT !.pc = "closed",
                                 !.eng = IF engineOk THEN Ok(<<>>) ELSE Err,
                                 !.engine_calls = @ + 1, !.fault = ~engineOk])
    /\ handles' = [handles EXCEPT ![th[t].h].log = "closed"]
    /\ UNCHANGED <<stores, proc, opsLeft, appends, orphaned, disk0, codec, pools>>

\* A close that gives up on an engine error and leaves the runtimes running.
ShutdownUnlessError(hd, engineOk) ==
    IF engineOk
    THEN [hd EXCEPT !.compaction_runtime = "shutdown", !.runtime = "shutdown",
                    !.maint = 0]
    ELSE hd

\* `rt.shutdown_background()` on the compaction runtime, then on the main
\* one, whatever the engine's close returned.
ShutdownRuntimes(hd, engineOk) ==
    [hd EXCEPT !.compaction_runtime = "shutdown", !.runtime = "shutdown",
               !.maint = 0]

\* nativeClose after block_on: throw on an engine error, shut both runtimes down.
CloseFinish(t) ==
    /\ Running(t, {"closed"})
    /\ Return(t, th[t], IF th[t].eng.ok THEN Returned(<<>>) ELSE Thrown(ODNE))
    /\ handles' = [handles EXCEPT ![th[t].h] = ShutdownRuntimes(@, th[t].eng.ok)]
    /\ pools' = PoolsLeft(handles')
    /\ UNCHANGED <<stores, proc, opsLeft, appends, orphaned, disk0, codec>>

\* LogDbReader.nativeClose: Box::from_raw, then the runtime is shut down.
ReaderCloseInvoke(t, h) ==
    /\ CanIssue(t)
    /\ h = 0 \/ (Known(h) /\ handles[h].kind = "ro")
    /\ opsLeft' = opsLeft - 1
    /\ LET call == [Call("close", h) EXCEPT !.stale = (h # 0 /\ ~Live(h))]
       IN  IF HandleIsNull(h)
           THEN Return(t, call, Returned(<<>>)) /\ handles' = handles
           ELSE IF Live(h)
           THEN /\ Continue(t, [call EXCEPT !.pc = "dropping"])
                /\ handles' = [handles EXCEPT ![h].st = "freed",
                                              ![h].runtime = "shutdown"]
           ELSE Continue(t, [call EXCEPT !.pc = "block"]) /\ handles' = handles
    /\ pools' = PoolsLeft(handles')
    /\ UNCHANGED <<stores, proc, appends, orphaned, disk0, codec>>

\* LogDbReader.nativeClose, the end of its scope: the reader is dropped.
ReaderDrop(t) ==
    /\ Running(t, {"dropping"})
    /\ Return(t, th[t], Returned(<<>>))
    /\ handles' = [handles EXCEPT ![th[t].h].log = "dropped"]
    /\ UNCHANGED <<stores, proc, opsLeft, appends, orphaned, disk0, codec, pools>>

\* ------------------------------------------------------------------------
\* A handle used after its close (`&*(handle as *const LogHandle)` and
\* Box::from_raw on freed memory): undefined behaviour.  The call crashes
\* the process, or returns something, or throws.
\* ------------------------------------------------------------------------

UbOutcomes == {"ub_crash", "ub_return", "ub_throw"}

UseAfterFree(t, outcome) ==
    /\ Running(t, {"block", "wait"})
    /\ ~Live(th[t].h)
    /\ proc' = IF outcome = "ub_crash" THEN "crashed" ELSE "ub"
    /\ Return(t, th[t], [status |-> outcome, exc |-> "", val |-> <<>>])
    /\ UNCHANGED <<handles, stores, opsLeft, appends, orphaned, disk0, codec, pools>>

\* ------------------------------------------------------------------------
\* The specification
\* ------------------------------------------------------------------------

\* The steps of a call that has been issued.
ThreadStep(t) ==
    \/ \E engineOk \in BOOLEAN : AppendEngine(t, engineOk)
    \/ \E jniOk \in BOOLEAN : AppendReturn(t, jniOk)
    \/ \E fault \in EngineFaults : ScanEngine(t, fault)
    \/ \E jniOk \in BOOLEAN : ScanReturn(t, jniOk)
    \/ \E engineOk \in BOOLEAN : CloseEngine(t, engineOk)
    \/ CloseFinish(t)
    \/ ReaderDrop(t)
    \/ \E outcome \in UbOutcomes : UseAfterFree(t, outcome)

\* The arguments and the faults the calls are issued with.
AllInputs ==
    [configs |-> Configs, faults |-> CreateFaults, batches |-> Batches,
     failAts |-> 0..MaxBatch, keys |-> Keys, starts |-> StartSamples,
     maxes |-> MaxEntriesSamples, jni |-> BOOLEAN, keep |-> FALSE]

\* A call is issued, with arguments among `in`.
Issue(t, in) ==
    \/ \E config \in in.configs, fault \in in.faults :
          LogDbCreate(t, config, fault, in.keep)
    \/ \E config \in in.configs, fault \in in.faults :
          ReaderCreate(t, config, fault, in.keep)
    \/ \E h \in 0..MaxHandles, records \in in.batches, failAt \in in.failAts :
          AppendInvoke(t, h, records, failAt)
    \/ \E h \in 0..MaxHandles, key \in in.keys, start \in in.starts,
          max \in in.maxes, jniOk \in in.jni :
          ScanInvoke(t, h, key, start, max, jniOk)
    \/ \E h \in 0..MaxHandles : CloseInvoke(t, h)
    \/ \E h \in 0..MaxHandles : ReaderCloseInvoke(t, h)

Next ==
    \/ \E t \in Threads : Issue(t, AllInputs)
    \/ \E t \in Threads : ThreadStep(t)
    \/ \E t \in Threads : EngineStall(t)
    \/ \E h \in HandleIds : Maintenance(h)

Spec == Init /\ [][Next]_vars

\* ------------------------------------------------------------------------
\* Concurrent calls on few inputs: one more call, no fault at issue
\* ------------------------------------------------------------------------

FewInputs ==
    [configs |-> {[storage |-> "InMemory", object_store |-> "InMemory"],
                  [storage |-> "SlateDb", object_store |-> "Local"]},
     faults |-> {"none"},
     batches |-> {<<RecHello>>, <<RecOther, RecHello>>},
     failAts |-> {0}, keys |-> {K1}, starts |-> {I64Zero},
     maxes |-> {10}, jni |-> {TRUE}, keep |-> FALSE]

ConcInit ==
    /\ th = [t \in Threads |-> IdleThread]
    /\ last = IdleThread
    /\ handles = [i \in HandleIds |-> NoHandle]
    /\ disk0 \in DiskImages
    /\ stores = [s \in StoreIds |-> IF s = 0 THEN disk0 ELSE EmptyStore]
    /\ appends = [s \in StoreIds |-> <<>>]
    /\ orphaned = [s \in StoreIds |-> 0]
    /\ proc = "ok"
    /\ opsLeft = MaxOps + 1
    /\ codec = CodecIdle
    /\ pools = {}

ConcNext ==
    \/ \E t \in Threads : Issue(t, FewInputs)
    \/ \E t \in Threads : ThreadStep(t)
    \/ \E t \in Threads : EngineStall(t)
    \/ \E h \in HandleIds : Maintenance(h)

ConcSpec == ConcInit /\ [][ConcNext]_vars

\* The calling threads run, and so do the workers of the runtimes: a call
\* that can take its next step takes it, a queued maintenance task is run.
LiveSpec ==
    /\ Init /\ [][ConcNext]_vars
    /\ \A t \in Threads : WF_vars(ThreadStep(t))
    /\ \A h \in HandleIds : WF_vars(Maintenance(h))

\* ------------------------------------------------------------------------
\* Creates and closes alone, the arguments of each create kept
\* ------------------------------------------------------------------------

CreateNext ==
    \/ \E t \in Threads, config \in Configs, fault \in CreateFaults :
          LogDbCreate(t, config, fault, TRUE)
    \/ \E t \in Threads, config \in Configs, fault \in CreateFaults :
          ReaderCreate(t, config, fault, TRUE)
    \/ \E t \in Threads, h \in 0..MaxHandles : CloseInvoke(t, h)
    \/ \E t \in Threads, h \in 0..MaxHandles : ReaderCloseInvoke(t, h)
    \/ \E t \in Threads, engineOk \in BOOLEAN : CloseEngine(t, engineOk)
    \/ \E t \in Threads : CloseFinish(t)
    \/ \E t \in Threads : ReaderDrop(t)
    \/ \E t \in Threads, outcome \in UbOutcomes : UseAfterFree(t, outcome)

CreateSpec == Init /\ [][CreateNext]_vars

\* ------------------------------------------------------------------------
\* The codec on its own: a timestamp and a payload encoded then decoded,
\* or a stored value decoded
\* ------------------------------------------------------------------------

Payloads == SeqsUpTo(ByteSamples, MaxPayloadLen)

StoredValues == SeqsUpTo(ByteSamples, MaxValueLen)

\* Sequence numbers an engine can assign: the ends of the u64 range and both
\* sides of 2^63.
SeqSamples ==
    {U64Zero, U64(0, 0, 1), U64(TopSign - 1, Limb - 1, Limb - 1),
     U64(TopSign, 0, 0), U64(Top - 1, Limb - 1, Limb - 1)}

CodecInputs ==
    {[CodecIdle EXCEPT !.pc = "input", !.mode = "roundtrip", !.ts = ts, !.payload = p] :
        ts \in TsSamples, p \in Payloads}
    \cup {[CodecIdle EXCEPT !.pc = "encoded", !.mode = "stored", !.value = v] :
            v \in StoredValues}
    \cup {[CodecIdle EXCEPT !.pc = "encoded", !.mode = "relay", !.seq = q, !.ts = ts] :
            q \in SeqSamples, ts \in {TsNow, TsNegative}}

CodecInit ==
    /\ th = [t \in Threads |-> IdleThread]
    /\ last = IdleThread
    /\ handles = [i \in HandleIds |-> NoHandle]
    /\ disk0 = EmptyStore
    /\ stores = [s \in StoreIds |-> EmptyStore]
    /\ appends = [s \in StoreIds |-> <<>>]
    /\ orphaned = [s \in StoreIds |-> 0]
    /\ proc = "ok"
    /\ opsLeft = 0
    /\ codec \in CodecInputs
    /\ pools = {}

\* copy_value_with_timestamp on the input.
CodecEncode ==
    /\ codec.pc = "input"
    /\ codec' = [codec EXCEPT !.pc = "encoded",
                              !.value = copy_value_with_timestamp(codec.payload, codec.ts)]
    /\ UNCHANGED <<th, last, handles, stores, proc, opsLeft, appends, orphaned, disk0, pools>>

\* extract_timestamp_and_payload on the value.
CodecDecode ==
    /\ codec.pc = "encoded"
    /\ codec' = [codec EXCEPT !.pc = "decoded",
                              !.out = extract_timestamp_and_payload(codec.value)]
    /\ UNCHANGED <<th, last, handles, stores, proc, opsLeft, appends, orphaned, disk0, pools>>

\* create_log_entry_array on one scanned entry holding the value.
CodecToEntries ==
    /\ codec.pc = "decoded"
    /\ codec' = [codec EXCEPT
                    !.pc = "listed",
                    !.entries = create_log_entry_array(
                                    <<Entry(codec.seq, K1, codec.value)>>, TRUE)]
    /\ UNCHANGED <<th, last, handles, stores, proc, opsLeft, appends, orphaned, disk0, pools>>

\* create_append_result on the start sequence the engine assigned.
CodecAppendResult ==
    /\ codec.pc = "listed" /\ codec.mode = "relay"
    /\ codec' = [codec EXCEPT
                    !.pc = "relayed",
                    !.result = LET r == create_append_result(codec.seq, codec.ts, TRUE)
                               IN  Ok(<<r.val>>)]
    /\ UNCHANGED <<th, last, handles, stores, proc, opsLeft, appends, orphaned, disk0, pools>>

CodecNext == CodecEncode \/ CodecDecode \/ CodecToEntries \/ CodecAppendResult

CodecSpec == CodecInit /\ [][CodecNext]_vars

\* ------------------------------------------------------------------------
\* Properties
\* ------------------------------------------------------------------------

\* C1: decoding the envelope that encoding (ts, p) produced gives back
\* exactly ts and p, for every timestamp (0, negative, i64::MAX, i64::MIN)
\* and every payload, the empty one included; the envelope is the 8 header
\* bytes followed by p.
C1_RoundTrip ==
    (codec.mode = "roundtrip" /\ codec.pc \in {"encoded", "decoded", "listed"}) =>
        /\ Len(codec.value) = TIMESTAMP_HEADER_SIZE + Len(codec.payload)
        /\ SubSeq(codec.value, TIMESTAMP_HEADER_SIZE + 1, Len(codec.value)) = codec.payload
        /\ codec.pc \in {"decoded", "listed"} =>
              /\ codec.out.timestamp_ms = codec.ts
              /\ codec.out.payload = codec.payload

\* A negative timestamp with an empty payload has gone through the round trip.
C1_Witness ==
    /\ codec.mode = "roundtrip" /\ codec.pc = "decoded"
    /\ I64Less(codec.ts, I64Zero) /\ codec.payload = <<>>
    /\ codec.value[1] = 255

\* The store behind the handle of the call that returned last.
LastStore == handles[last.h].store

\* The call that returned last was issued on a handle that was live, and no
\* undefined behaviour has happened.
LastOnLive(op) ==
    /\ proc = "ok" /\ last.op = op
    /\ Known(last.h) /\ ~last.stale

\* The scan that returned last was issued after exactly one append on its
\* handle's store had returned, of the single record of its key, and the
\* store holds nothing else.
ScanAfterSingleAppend ==
    /\ LastOnLive("scan") /\ handles[last.h].kind = "rw"
    /\ last.start_seq = U64Zero /\ last.max >= 1
    /\ last.acked = 1
    /\ Len(appends[LastStore][1].records) = 1
    /\ appends[LastStore][1].records[1].key = last.key
    /\ Len(stores[LastStore].log) = 1

\* C2: on a fresh write handle, after the append of one record {k, p, t}
\* returned AppendResult r, scan(k, 0, n) with n >= 1 returns exactly one
\* entry: sequence r.start_sequence, timestamp t, key k, payload p.  (It
\* throws only when a JNI call or the engine fails under it.)
C2_AppendThenScan ==
    ScanAfterSingleAppend =>
        LET a == appends[LastStore][1]
        IN  /\ ~last.fault => last.ret.status = "ok"
            /\ last.ret.status = "ok" =>
                  last.ret.val = << JLogEntry(a.result.start_sequence,
                                              a.records[1].timestampMs,
                                              a.records[1].key,
                                              a.records[1].value) >>

\* The record {k1, "hi", 1_700_000_000_000} was appended and scanned back.
C2_Witness ==
    /\ ScanAfterSingleAppend
    /\ last.ret.status = "ok"
    /\ Len(last.ret.val) = 1
    /\ last.ret.val[1].payload = <<104, 105>>
    /\ last.ret.val[1].timestamp_ms = TsNow

\* An append with an empty Record[] has just returned.
EmptyAppendReturns ==
    /\ last'.op = "append" /\ last'.records = <<>> /\ last'.h # 0
    /\ opsLeft' = opsLeft - 1

\* C3: append with an empty record sequence on a live handle throws
\* IllegalArgumentException without calling the engine, and the step leaves
\* the logs as they were.
C3_EmptyAppend ==
    /\ [](LastOnLive("append") /\ last.records = <<>> =>
            /\ last.ret = Thrown(IAE)
            /\ last.engine_calls = 0)
    /\ [][EmptyAppendReturns => stores' = stores /\ appends' = appends]_vars

\* An empty append on a live handle has thrown.
C3_Witness ==
    /\ LastOnLive("append") /\ last.records = <<>>
    /\ last.ret.exc = IAE

\* C4: the AppendResult of a successful append carries the timestamp of the
\* record at index 0, whatever the timestamps of the later records.
C4_FirstTimestamp ==
    (LastOnLive("append") /\ last.ret.status = "ok") =>
        last.ret.val[1].timestamp_ms = last.records[1].timestampMs

\* A batch whose second record has a smaller timestamp than its first.
C4_Witness ==
    /\ LastOnLive("append") /\ last.ret.status = "ok"
    /\ Len(last.records) = 2
    /\ I64Less(last.records[2].timestampMs, last.records[1].timestampMs)

\* ------------------------------------------------------------------------
\* Concurrent appends
\* ------------------------------------------------------------------------

\* The records of key k in a batch.
CountKey(records, k) == Cardinality({j \in 1..Len(records) : records[j].key = k})

RECURSIVE AckedCount(_, _, _)
\* The records of key k in the first n appends that returned on a store.
AckedCount(acks, n, k) ==
    IF n = 0 THEN 0
    ELSE AckedCount(acks, n - 1, k) + CountKey(acks[n].records, k)

\* The entries of key k the store held before the run.
StoredBefore(s, k) ==
    IF s = 0 THEN Len(SelectSeq(disk0.log, LAMBDA e : e.key = k)) ELSE 0

\* The scan that returned last read its key from sequence 0 and did not stop
\* at max_entries.
FullScan ==
    /\ LastOnLive("scan") /\ last.ret.status = "ok"
    /\ last.start_seq = U64Zero
    /\ Len(last.ret.val) < last.max

\* Record j of returned append a is in the scan result exactly once, at the
\* sequence number the AppendResult gave it.
InScanOnce(a, j) ==
    Cardinality({n \in 1..Len(last.ret.val) :
        last.ret.val[n] =
            JLogEntry(U64AsI64(U64Add(I64AsU64(a.result.start_sequence), j - 1)),
                      a.records[j].timestampMs, a.records[j].key,
                      a.records[j].value)}) = 1

\* Nothing is between the engine and the caller on store s: no append is
\* inside the call, none threw after the engine had taken its records, and
\* every append that returned had returned when the scan was issued.
Quiescent(s) ==
    /\ last.acked = Len(appends[s])
    /\ orphaned[s] = 0
    /\ \A t \in Threads :
          ~(th[t].op = "append" /\ th[t].pc = "ret" /\ handles[th[t].h].store = s)

\* C5: appends issued from different threads on one live write handle
\* succeed (unless a JNI call or the engine fails under them), and a scan
\* over the key afterwards holds every record of every append that had
\* returned, once each at its own sequence number, with no sequence number
\* twice; with nothing in flight it holds those records and the ones stored
\* before, and nothing else.
C5_ConcurrentAppends ==
    /\ (LastOnLive("append") /\ last.records # <<>> /\ ~last.fault) =>
           last.ret.status = "ok"
    /\ FullScan =>
          LET s == LastStore
              acks == appends[s]
              out == last.ret.val
          IN  /\ \A i \in 1..last.acked : \A j \in 1..Len(acks[i].records) :
                    acks[i].records[j].key = last.key => InScanOnce(acks[i], j)
              /\ \A m, n \in 1..Len(out) :
                    m < n => I64Less(out[m].sequence, out[n].sequence)
              /\ Len(out) >= StoredBefore(s, last.key)
                                + AckedCount(acks, last.acked, last.key)
              /\ Quiescent(s) =>
                    Len(out) = StoredBefore(s, last.key)
                                + AckedCount(acks, Len(acks), last.key)

\* Two appends were inside the call on the same handle at the same time,
\* both returned, and the scan after them has returned.
C5_Witness ==
    /\ FullScan /\ Quiescent(LastStore)
    /\ last.acked = 2
    /\ appends[LastStore][1].overlap /\ appends[LastStore][2].overlap
    /\ Len(last.ret.val) >= 2

\* ------------------------------------------------------------------------
\* Progress
\* ------------------------------------------------------------------------

\* Thread t is inside an append or a scan.
InCall(t) == th[t].op \in {"append", "scan"} /\ th[t].pc # "idle"

\* C6: every append or scan that has been issued returns (a result or an
\* exception), while maintenance is queued and other calls are blocked; and
\* a queued maintenance task can always be run, whatever the blocked calls
\* hold: it is queued on the compaction runtime, not behind them.
C6_CallsReturn ==
    /\ \A t \in Threads : InCall(t) ~> (th[t].pc = "idle" \/ proc = "crashed")
    /\ [](\A h \in HandleIds :
            handles[h].maint > 0 => MaintCanRun(h))

\* One call holds the only worker of the main runtime, waiting for a
\* maintenance task, and the other thread's call is blocked behind it.
C6_Witness ==
    \E t, u \in Threads :
        /\ t # u /\ th[t].h = th[u].h /\ Live(th[t].h)
        /\ th[t].pc = "wait" /\ th[u].pc = "block"
        /\ handles[th[t].h].maint > 0
        /\ FgBusy(th[t].h) = FgWorkers

\* ------------------------------------------------------------------------
\* Close
\* ------------------------------------------------------------------------

\* One of the handle's pools has been shut down.
PoolShutDown(h) ==
    handles[h].runtime = "shutdown" \/ handles[h].compaction_runtime = "shutdown"

\* C7 as stated: for read-write and read-only handles alike, no pool is shut
\* down before the engine's asynchronous shutdown has completed.
C7_Original ==
    \A h \in HandleIds : PoolShutDown(h) => handles[h].log = "closed"

\* C7: close of a read-write handle awaits the engine's close before it
\* shuts down either pool.  Close of a read-only handle calls no engine
\* shutdown: it shuts its pool down and then drops the reader.
C7_CloseOrder ==
    \A h \in HandleIds :
        /\ handles[h].kind = "rw" => (PoolShutDown(h) => handles[h].log = "closed")
        /\ handles[h].kind = "ro" =>
              /\ handles[h].log # "closed"
              /\ handles[h].log = "dropped" => handles[h].runtime = "shutdown"
              /\ handles[h].st = "freed" => handles[h].runtime = "shutdown"

\* A read-write handle whose engine close has completed, its pools not yet
\* shut down, then both shut down once close has returned.
C7_Witness ==
    /\ last.op = "close" /\ Known(last.h) /\ ~last.stale
    /\ handles[last.h].kind = "rw"
    /\ last.engine_calls = 1
    /\ handles[last.h].log = "closed"
    /\ handles[last.h].runtime = "shutdown"
    /\ handles[last.h].compaction_runtime = "shutdown"

\* C8: close of a live write handle shuts both pools down whether the
\* engine's close succeeded or failed; a failure is thrown to the caller as
\* an exception and the pools are shut down all the same.
C8_CloseReleases ==
    (LastOnLive("close") /\ handles[last.h].kind = "rw") =>
        /\ handles[last.h].runtime = "shutdown"
        /\ handles[last.h].compaction_runtime = "shutdown"
        /\ last.eng.ok => last.ret = Returned(<<>>)
        /\ ~last.eng.ok => last.ret = Thrown(ODNE)

\* The engine's close failed, the exception was thrown, the pools are down.
C8_Witness ==
    /\ LastOnLive("close") /\ handles[last.h].kind = "rw"
    /\ ~last.eng.ok /\ last.ret.status = "exception"
    /\ handles[last.h].runtime = "shutdown"
    /\ handles[last.h].compaction_runtime = "shutdown"

\* ------------------------------------------------------------------------
\* Handles
\* ------------------------------------------------------------------------

\* C9 as stated: a call on the handle value of a closed handle fails the
\* handle lookup and is reported as an error, nothing released is touched.
C9_Original ==
    /\ proc = "ok"
    /\ last.stale => last.ret.status = "exception" /\ last.engine_calls = 0

\* C9: the entry points check a handle against 0 only: append and scan on 0
\* throw NullPointerException, close(0) does nothing.  A call on the value
\* of a closed handle is not rejected: unless it returns before it uses the
\* handle (empty batch, a JNI failure while it converts its arguments), it
\* uses the released LogHandle, which is undefined behaviour.
C9_NullCheckOnly ==
    /\ last.ret.exc = NPE <=> (last.op \in {"append", "scan"} /\ last.h = 0)
    /\ (last.op = "close" /\ last.h = 0) => last.ret = Returned(<<>>)
    /\ last.stale =>
          \/ last.ret.status \in UbOutcomes /\ proc # "ok"
          \/ /\ last.op \in {"append", "scan"} /\ last.engine_calls = 0
             /\ \/ last.ret = Thrown(IAE) /\ last.op = "append" /\ last.records = <<>>
                \/ last.ret = Thrown(ODNE) /\ last.fault

\* An append on a closed handle went on to the released LogHandle.
C9_Witness ==
    /\ last.op = "append" /\ last.stale
    /\ last.ret.status \in UbOutcomes
    /\ proc # "ok"

\* ------------------------------------------------------------------------
\* Values without the header
\* ------------------------------------------------------------------------

\* C10: a stored value v shorter than the 8-byte header decodes, without an
\* error, to timestamp 0 and payload v, and the entry a scan builds from it
\* carries timestamp 0 and payload v.
C10_ShortValue ==
    (codec.mode = "stored" /\ Len(codec.value) < TIMESTAMP_HEADER_SIZE) =>
        /\ codec.pc \in {"decoded", "listed"} =>
              codec.out = [timestamp_ms |-> I64Zero, payload |-> codec.value]
        /\ codec.pc = "listed" =>
              /\ codec.entries.ok
              /\ Len(codec.entries.val) = 1
              /\ codec.entries.val[1].timestamp_ms = I64Zero
              /\ codec.entries.val[1].payload = codec.value

\* A 7-byte value went through the decoder and into a scan entry.
C10_Witness ==
    /\ codec.mode = "stored" /\ codec.pc = "listed"
    /\ Len(codec.value) = TIMESTAMP_HEADER_SIZE - 1
    /\ codec.entries.val[1].payload = codec.value

\* ------------------------------------------------------------------------
\* Values with the header
\* ------------------------------------------------------------------------

\* An i64 in range, as limbs.
IsI64(ts) ==
    /\ ts.h \in (0 - TopSign)..(TopSign - 1)
    /\ ts.m \in 0..(Limb - 1) /\ ts.l \in 0..(Limb - 1)

\* C11: a stored value v of 8 bytes or more decodes to the i64 whose
\* big-endian two's-complement bytes are v's first 8 (negative exactly when
\* the top bit of the first byte is set) and to the payload v[8..]; a value
\* of exactly 8 bytes gives the empty payload.
C11_SplitAtHeader ==
    (codec.mode = "stored" /\ codec.pc \in {"decoded", "listed"}
        /\ Len(codec.value) >= TIMESTAMP_HEADER_SIZE) =>
        /\ IsI64(codec.out.timestamp_ms)
        /\ ToBeBytes(codec.out.timestamp_ms) = SubSeq(codec.value, 1, TIMESTAMP_HEADER_SIZE)
        /\ I64Less(codec.out.timestamp_ms, I64Zero) <=> codec.value[1] >= 2^7
        /\ Len(codec.out.payload) = Len(codec.value) - TIMESTAMP_HEADER_SIZE
        /\ \A i \in 1..Len(codec.out.payload) :
              codec.out.payload[i] = codec.value[TIMESTAMP_HEADER_SIZE + i]
        /\ Len(codec.value) = TIMESTAMP_HEADER_SIZE => codec.out.payload = <<>>

\* A value of exactly 8 bytes, the top bit set, decoded to a negative
\* timestamp and no payload.
C11_Witness ==
    /\ codec.mode = "stored" /\ codec.pc = "decoded"
    /\ Len(codec.value) = TIMESTAMP_HEADER_SIZE
    /\ codec.value[1] = 128 /\ codec.value[8] = 255
    /\ codec.out.payload = <<>>
    /\ I64Less(codec.out.timestamp_ms, I64Zero)

\* ------------------------------------------------------------------------
\* Sequence numbers at the boundary
\* ------------------------------------------------------------------------

\* The Java long x and the engine's u64 u are the same number.
SameNumber(x, u) == x.h = u.h /\ x.m = u.m /\ x.l = u.l

\* The Java long x is the engine's u64 u less 2^64.
WrappedNumber(x, u) == x.h = u.h - 2^16 /\ x.m = u.m /\ x.l = u.l

\* The sequence numbers the caller has been given for codec.seq: that of
\* the LogEntry and, once built, that of the AppendResult.
RelayedSequences ==
    IF codec.mode = "relay" /\ codec.pc \in {"listed", "relayed"}
    THEN {codec.entries.val[1].sequence}
            \cup (IF codec.pc = "relayed"
                  THEN {codec.result.val[1].start_sequence} ELSE {})
    ELSE {}

\* C17 as stated: for every engine-assigned u64, the caller sees the same
\* number in AppendResult.start_sequence and in LogEntry.sequence.
C17_Original ==
    \A x \in RelayedSequences : SameNumber(x, codec.seq)

\* C17: the engine's sequence number reaches the caller as the same 64 bits
\* in a signed long: below 2^63 the caller sees the same number, from 2^63
\* on the number less 2^64, a negative long.
C17_SameBits ==
    \A x \in RelayedSequences :
        /\ IsI64(x)
        /\ codec.seq.h < 2^15 => SameNumber(x, codec.seq)
        /\ codec.seq.h >= 2^15 => WrappedNumber(x, codec.seq) /\ I64Less(x, I64Zero)

\* The engine assigned 2^63; the caller was given i64::MIN twice.
C17_Witness ==
    /\ codec.mode = "relay" /\ codec.pc = "relayed"
    /\ codec.seq = U64(2^15, 0, 0)
    /\ RelayedSequences = {I64Min}

\* ------------------------------------------------------------------------
\* Scans
\* ------------------------------------------------------------------------

\* A JNI call failed under the call that returned last: before its
\* block_on, or after the engine had answered.
JniFailed == last.fault /\ (last.engine_calls = 0 \/ last.eng.ok)

\* The engine failed under the call that returned last.
EngineFailed == last.engine_calls = 1 /\ ~last.eng.ok

\* The scan that returned last had max_entries = 0 and a live handle.
ScanOfNothing == LastOnLive("scan") /\ last.max = 0

\* C12 as stated: with max_entries = 0 a scan returns the empty sequence
\* without error, whatever the engine does.
C12_Original ==
    (ScanOfNothing /\ ~JniFailed) => last.ret = Returned(<<>>)

\* C12: with max_entries = 0 a scan on a live handle of either kind opens
\* the engine's cursor and pulls nothing from it: when the cursor opens, the
\* scan returns the empty sequence whatever the log holds; when the engine
\* fails to open it, the scan throws.
C12_ScanOfNothing ==
    ScanOfNothing =>
        /\ last.ret.status = "ok" =>
              /\ last.ret.val = <<>>
              /\ last.engine_calls = 1 /\ last.eng.pulls = 0
        /\ EngineFailed => last.ret = Thrown(ODNE)
        /\ (~JniFailed /\ ~EngineFailed) => last.ret.status = "ok"

\* A scan of nothing over a key that has entries returned empty, on a
\* read-only handle.
C12_Witness ==
    /\ ScanOfNothing /\ last.ret = Returned(<<>>)
    /\ handles[last.h].kind = "ro"
    /\ last.cursor_len > 0

\* ------------------------------------------------------------------------
\* Create
\* ------------------------------------------------------------------------

\* The create that returned last, its arguments kept.
LastCreate == last.op = "create" /\ last.config # NoConfig

\* The configuration names a storage, and for SlateDb an object store, of a
\* class the library knows.
Recognized(config) ==
    \/ config.storage = "InMemory"
    \/ /\ config.storage = "SlateDb"
       /\ config.object_store \in {"InMemory", "Local", "Aws"}

\* This step is a create returning, with the exception e or any when e = "".
CreateFails(e) ==
    /\ th' = th /\ opsLeft' = opsLeft - 1
    /\ last'.op = "create" /\ last'.ret.status = "exception"
    /\ e # "" => last'.ret.exc = e

\* C13: create with a storage object that is neither InMemory nor SlateDb,
\* or a SlateDb whose object store is none of InMemory, Local, Aws, throws
\* IllegalArgumentException (the configuration error) whatever else would
\* fail, and the step makes no handle, no runtime and no engine: no default
\* variant stands in.
C13_UnknownConfig ==
    /\ []((LastCreate /\ ~Recognized(last.config)) => last.ret = Thrown(IAE))
    /\ [][(CreateFails(IAE) /\ ~Recognized(last'.config)) =>
              (handles' = handles /\ pools' = pools /\ stores' = stores)]_vars

\* A SlateDb configuration over an object store of an unknown class was
\* turned down; nothing is allocated.
C13_Witness ==
    /\ LastCreate /\ last.ret = Thrown(IAE)
    /\ last.config = [storage |-> "SlateDb", object_store |-> "Unknown"]
    /\ last.create_fault = "none"
    /\ pools = {} /\ \A h \in HandleIds : ~Known(h)

\* C14: create returns a handle exactly when the configuration was
\* extracted, every runtime was built and the engine opened; otherwise it
\* throws, returns no handle and the step leaves no runtime and no engine
\* behind: every allocated runtime is a running one of a handle that some
\* create returned.
C14_CreateAllOrNothing ==
    /\ [](LastCreate =>
            /\ last.ret.status = "ok" <=>
                  (Recognized(last.config) /\ last.create_fault = "none")
            /\ last.ret.status = "ok" =>
                  \E h \in HandleIds : last.ret.val = <<h>> /\ Known(h)
            /\ last.ret.status # "ok" => last.ret.status = "exception")
    /\ [](\A p \in pools :
            /\ p.owner \in HandleIds /\ Known(p.owner)
            /\ handles[p.owner][p.role] = "running")
    /\ [][CreateFails("") => (handles' = handles /\ pools' = pools)]_vars

\* The engine failed to open after both runtimes of a read-write create had
\* been built; none is left.
C14_Witness ==
    /\ LastCreate /\ last.ret = Thrown(ODNE)
    /\ last.create_fault = "open" /\ Recognized(last.config)
    /\ pools = {} /\ \A h \in HandleIds : ~Known(h)

\* ------------------------------------------------------------------------
\* Runtimes
\* ------------------------------------------------------------------------

\* The runtimes handle h owns.
Owned(h) == {p \in pools : p.owner = h}

Submitted(records, rust_records) ==
    /\ Len(rust_records) = Len(records)
    /\ \A i \in 1..Len(records) :
          /\ rust_records[i].key = records[i].key
          /\ rust_records[i].value =
                ToBeBytes(records[i].timestampMs) \o records[i].value
          /\ Len(rust_records[i].value) =
                TIMESTAMP_HEADER_SIZE + Len(records[i].value)
          /\ Len(rust_records[i].value) >= TIMESTAMP_HEADER_SIZE

\* The entries the engine makes of rust_records from sequence number next.
EntriesOf(rust_records, next) ==
    [i \in 1..Len(rust_records) |->
        Entry(U64Add(next, i - 1), rust_records[i].key, rust_records[i].value)]

\* Thread t is in an append whose batch was marshalled.
Marshalled(t) == th[t].op = "append" /\ th[t].pc \in {"block", "wait", "ret"}

\* C15: a batch of n >= 1 records that was marshalled is submitted in one
\* engine append of n records in input order, the i-th with the i-th key
\* and with the 8 big-endian bytes of the i-th record's own timestamp before
\* its payload, so of length 8 + len(payload) >= 8; a store changes only by
\* such an append, which adds exactly those n entries at its end.
C15_SubmittedBatch ==
    /\ [](\A t \in Threads : Marshalled(t) =>
            /\ Len(th[t].records) >= 1
            /\ Submitted(th[t].records, th[t].rust_records)
            /\ th[t].engine_calls = IF th[t].pc = "ret" THEN 1 ELSE 0)
    /\ []((LastOnLive("append") /\ last.ret.status = "ok") =>
            /\ last.engine_calls = 1
            /\ \E k \in 1..Len(stores[LastStore].log) :
                  \A i \in 1..Len(last.records) :
                      /\ k + i - 1 <= Len(stores[LastStore].log)
                      /\ stores[LastStore].log[k + i - 1] =
                            Entry(U64Add(last.eng.val, i - 1), last.records[i].key,
                                  ToBeBytes(last.records[i].timestampMs)
                                      \o last.records[i].value))
    /\ [][\A s \in StoreIds : stores'[s] # stores[s] =>
            \E t \in Threads :
                /\ Marshalled(t) /\ th[t].pc # "ret" /\ th'[t].pc = "ret"
                /\ handles[th[t].h].store = s
                /\ Submitted(th[t].records, th[t].rust_records)
                /\ stores'[s].log =
                      stores[s].log \o EntriesOf(th[t].rust_records, stores[s].next)]_vars

\* An append of two records with different timestamps returned, and the
\* store ends with the two of them, each under its own header.
C15_Witness ==
    /\ LastOnLive("append") /\ last.ret.status = "ok"
    /\ last.records = <<RecOther, RecHello>>
    /\ RecOther.timestampMs # RecHello.timestampMs
    /\ LET log == stores[LastStore].log
       IN  /\ Len(log) >= 2
           /\ log[Len(log) - 1].value = ToBeBytes(TsNegative)
           /\ log[Len(log)].value = ToBeBytes(TsNow) \o <<104, 105>>

\* The smaller of two numbers.
Min(a, b) == IF a < b THEN a ELSE b

\* C16: a scan that returns, returns min(max_entries, m) entries of the m
\* that the cursor yields: the first ones, in the cursor's order, and it
\* calls the cursor's next() at most max_entries times, so that no entry
\* after the max_entries-th is pulled.
C16_ScanTruncates ==
    (LastOnLive("scan") /\ last.ret.status = "ok") =>
        LET cursor == EngineScan(stores[LastStore], last.key, last.start_seq)
            n == Min(last.max, last.cursor_len)
        IN  /\ Len(last.ret.val) = n
            /\ \A i \in 1..n :
                  last.ret.val[i] = create_log_entry_array(<<cursor[i]>>, TRUE).val[1]
            /\ last.eng.pulls = Min(last.max, last.cursor_len + 1)
            /\ last.eng.pulls <= last.max

\* A scan for one entry of a key that has two returned the first.
C16_Witness ==
    /\ LastOnLive("scan") /\ last.ret.status = "ok"
    /\ last.max = 1 /\ last.cursor_len = 2
    /\ Len(last.ret.val) = 1 /\ last.ret.val[1].sequence = I64Zero
    /\ last.eng.pulls = 1

\* This step is an append returning after a JNI call failed at a record.
MarshalFails ==
    /\ th' = th /\ opsLeft' = opsLeft - 1
    /\ last'.op = "append" /\ last'.fail_at > 0

\* C19: an append whose marshalling fails at a record, the first or a
\* later one, throws; the engine's append is not invoked and the step
\* writes nothing, the records before the failing one included.
C19_MarshalAllOrNothing ==
    /\ []((last.op = "append" /\ last.fail_at > 0) =>
            /\ last.ret = Thrown(ODNE)
            /\ last.engine_calls = 0)
    /\ [](\A t \in Threads : Marshalled(t) => th[t].fail_at = 0)
    /\ [][MarshalFails => (stores' = stores /\ appends' = appends)]_vars

\* An append of two records failed at the second; its store is empty.
C19_Witness ==
    /\ proc = "ok" /\ last.op = "append" /\ Known(last.h) /\ ~last.stale
    /\ Len(last.records) = 2 /\ last.fail_at = 2
    /\ last.ret = Thrown(ODNE)
    /\ stores[LastStore].log = <<>>

=============================================================================
